---- MODULE Spec2Model ----
(***************************************************************************)
(* Speed-recommendation engine and route-safety analysis of                *)
(* backend/routes/speed_routes.py, with the GPS / route simulators of      *)
(* backend/utils/gps_simulator.py.                                         *)
(*                                                                         *)
(* The engine computes in Python floats (IEEE-754 binary64).  Its results  *)
(* depend on the rounding of every operation, so floats are modelled       *)
(* bit-exactly: a non-negative float is the natural number x * 2^60, kept  *)
(* as a little-endian sequence of 15-bit limbs, and every operation is the *)
(* exact operation followed by round-to-nearest-even at 53 significant     *)
(* bits.  All floats the engine produces are 0 or lie in [2^-7, 2^31), for *)
(* which the 2^-60 grid is exact.                                          *)
(***************************************************************************)
EXTENDS Integers, Sequences, FiniteSets, TLC

(***************************************************************************)
(* Natural numbers of arbitrary size (limb sequences, <<>> is zero).       *)
(* The({e(v) : v \in {x}}) is e(x) with x evaluated once.                  *)
(***************************************************************************)
LimbBits == 15
Base == 2^LimbBits

The(S) == CHOOSE v \in S : TRUE

Limb(a, i) == IF i <= Len(a) THEN a[i] ELSE 0

RECURSIVE BAddFrom(_, _, _, _)
BAddFrom(a, b, i, c) ==
    IF i > Len(a) /\ i > Len(b)
    THEN (IF c = 0 THEN <<>> ELSE <<c>>)
    ELSE The({<<s % Base>> \o BAddFrom(a, b, i + 1, s \div Base) :
                 s \in {Limb(a, i) + Limb(b, i) + c}})

BAdd(a, b) == The({BAddFrom(va, vb, 1, 0) : va \in {a}, vb \in {b}})

RECURSIVE BNorm(_)
BNorm(a) ==
    IF a = <<>> THEN a
    ELSE IF a[Len(a)] = 0 THEN BNorm(SubSeq(a, 1, Len(a) - 1)) ELSE a

RECURSIVE BSubFrom(_, _, _, _)
BSubFrom(a, b, i, br) ==
    IF i > Len(a) THEN <<>>
    ELSE The({IF d < 0 THEN <<d + Base>> \o BSubFrom(a, b, i + 1, 1)
                       ELSE <<d>> \o BSubFrom(a, b, i + 1, 0) :
                 d \in {Limb(a, i) - Limb(b, i) - br}})

\* a - b, for a >= b
BSub(a, b) == The({BNorm(d) : d \in {The({BSubFrom(va, vb, 1, 0) : va \in {a}, vb \in {b}})}})

RECURSIVE BMulLimbFrom(_, _, _, _)
BMulLimbFrom(a, k, i, c) ==
    IF i > Len(a)
    THEN (IF c = 0 THEN <<>> ELSE <<c>>)
    ELSE The({<<p % Base>> \o BMulLimbFrom(a, k, i + 1, p \div Base) :
                 p \in {a[i] * k + c}})

\* a * k, for 0 <= k < Base
BMulLimb(a, k) ==
    The({IF vk = 0 THEN <<>> ELSE BMulLimbFrom(va, vk, 1, 0) : va \in {a}, vk \in {k}})

ShiftLimbs(a, n) ==
    The({IF va = <<>> THEN va ELSE [i \in 1..n |-> 0] \o va : va \in {a}})

RECURSIVE BMulFrom(_, _, _)
BMulFrom(a, b, j) ==
    IF j > Len(b) THEN <<>>
    ELSE IF b[j] = 0 THEN BMulFrom(a, b, j + 1)
    ELSE BAdd(ShiftLimbs(BMulLimb(a, b[j]), j - 1), BMulFrom(a, b, j + 1))

BMul(a, b) == The({BMulFrom(va, vb, 1) : va \in {a}, vb \in {b}})

BLess(a, b) ==
    The({\/ Len(va) < Len(vb)
         \/ /\ Len(va) = Len(vb)
            /\ \E i \in 1..Len(va) :
                  va[i] < vb[i] /\ \A j \in (i + 1)..Len(va) : va[j] = vb[j] :
            va \in {a}, vb \in {b}})

BitLenLimb(x) == CHOOSE n \in 0..LimbBits : x < 2^n /\ (n = 0 \/ x >= 2^(n - 1))

BitLen(a) ==
    The({IF va = <<>> THEN 0 ELSE LimbBits * (Len(va) - 1) + BitLenLimb(va[Len(va)]) :
            va \in {a}})

\* a * 2^n
BShl(a, n) == ShiftLimbs(BMulLimb(a, 2^(n % LimbBits)), n \div LimbBits)

\* floor(a / 2^n)
BShr(a, n) ==
    The({The({IF r = 0 THEN hi
              ELSE The({IF Len(m) <= 1 THEN <<>> ELSE Tail(m) :
                           m \in {BMulLimb(hi, 2^(LimbBits - r))}}) :
                 hi \in {IF w >= Len(va) THEN <<>> ELSE SubSeq(va, w + 1, Len(va))}}) :
            va \in {a}, w \in {n \div LimbBits}, r \in {n % LimbBits}})

RECURSIVE BFromNat(_)
BFromNat(n) == IF n = 0 THEN <<>> ELSE <<n % Base>> \o BFromNat(n \div Base)

RECURSIVE BToNat(_)
BToNat(a) == IF a = <<>> THEN 0 ELSE a[1] + Base * BToNat(Tail(a))

\* floor(a / d) and a mod d for a small divisor 0 < d < Base (long division
\* from the most significant limb)
RECURSIVE BDivLimbFrom(_, _, _, _)
BDivLimbFrom(a, d, i, rem) ==
    IF i = 0 THEN [q |-> <<>>, r |-> rem]
    ELSE The({The({[q |-> rest.q \o <<cur \div d>>, r |-> rest.r] :
                      rest \in {BDivLimbFrom(a, d, i - 1, cur % d)}}) :
                 cur \in {rem * Base + a[i]}})

BDivLimb(a, d) ==
    The({[q |-> BNorm(res.q), r |-> res.r] :
            res \in {The({BDivLimbFrom(va, d, Len(va), 0) : va \in {a}})}})

(***************************************************************************)
(* IEEE-754 binary64 arithmetic on non-negative values.                    *)
(***************************************************************************)
MantBits == 53
FracBits == 60

\* bit k of a (bit 0 is the least significant)
Bit(a, k) == (Limb(a, (k \div LimbBits) + 1) \div 2^(k % LimbBits)) % 2

\* a mod 2^k = 0
LowZero(a, k) ==
    /\ \A i \in 1..(k \div LimbBits) : Limb(a, i) = 0
    /\ Limb(a, (k \div LimbBits) + 1) % 2^(k % LimbBits) = 0

\* a with its k low bits cleared
ClearLow(a, k) ==
    [i \in 1..Len(a) |->
        IF i <= k \div LimbBits THEN 0
        ELSE IF i = (k \div LimbBits) + 1 THEN a[i] - (a[i] % 2^(k % LimbBits))
        ELSE a[i]]

\* round-to-nearest, ties-to-even, at MantBits significant bits: with s bits
\* to drop, round up when the dropped part is above half a unit of the last
\* kept bit, or is exactly half and the last kept bit is 1
RoundAt(a, s) ==
    IF s <= 0 THEN a
    ELSE IF Bit(a, s - 1) = 1 /\ (~LowZero(a, s - 1) \/ Bit(a, s) = 1)
         THEN BAdd(ClearLow(a, s), BShl(<<1>>, s))
         ELSE ClearLow(a, s)

Round53(a) == The({The({RoundAt(va, s) : s \in {BitLen(va) - MantBits}}) : va \in {a}})

FAdd(x, y) == Round53(BAdd(x, y))
FSub(x, y) == Round53(BSub(x, y))
FMul(x, y) == BShr(Round53(BMul(x, y)), FracBits)
FLess(x, y) == BLess(x, y)
FMin(x, y) == The({IF FLess(vy, vx) THEN vy ELSE vx : vx \in {x}, vy \in {y}})

\* float(n) for a natural number n
FFromInt(n) == BShl(BFromNat(n), FracBits)

\* the float a decimal literal num/den denotes (the nearest binary64): the
\* quotient is taken with FracBits guard bits and a sticky bit
FLit(num, den) ==
    The({BShr(Round53(IF dv.r = 0 THEN dv.q
                      ELSE <<dv.q[1] - (dv.q[1] % 2) + 1>> \o Tail(dv.q)), FracBits) :
            dv \in {BDivLimb(BShl(BFromNat(num), 2 * FracBits), den)}})

\* int(x) for a non-negative float x (truncation)
FToInt(x) == BToNat(BShr(x, FracBits))

(***************************************************************************)
(* SpeedRecommendationEngine (speed_routes.py).                            *)
(*                                                                         *)
(* A distance is a whole number of hundredths of a kilometre, standing for *)
(* the float nearest to it; the thresholds of DISTANCE_FACTORS are whole   *)
(* hundredths too, so comparing the numbers is comparing the floats.  A    *)
(* hazard record carries `distance_km`, the value calculate_distance       *)
(* returns for it from the query point.                                    *)
(***************************************************************************)
VARIABLES
    base_speed_limit,    \* engine: the speed limit passed in
    hazards,             \* engine: the hazard sequence passed in
    recommended_speed,   \* engine: the value returned (0 before the call)
    pc,                  \* engine: "input" before the call, "done" after it
    arg_km,              \* get_distance_factor: the argument of the last call
    factor,              \* get_distance_factor: the value it returned
    called,              \* get_distance_factor: TRUE once it has been called
    impact,              \* engine loop: the impact of the one hazard examined
    request,             \* HTTP: the JSON body and what the hazard query returns
    response,            \* HTTP: the handler that ran and what it returned
    gps_simulator,       \* the GPSSimulator object (the embedded one of a route)
    route_simulator,     \* the RouteSimulator object
    reported,            \* what get_current_position returned last
    moves,               \* the number of GPSSimulator.move calls made
    outcome              \* how the last simulator call ended

SeverityLevel == {"low", "medium", "high"}

Zero == <<>>
One == FFromInt(1)

SPEED_FACTORS ==
    [s \in SeverityLevel |->
        CASE s = "high"   -> FLit(5, 10)
          [] s = "medium" -> FLit(75, 100)
          [] s = "low"    -> FLit(90, 100)]

\* threshold (hundredths of a km) |-> factor
DISTANCE_FACTORS ==
    [t \in {10, 20, 50, 100, 200} |->
        CASE t = 10  -> FLit(10, 10)
          [] t = 20  -> FLit(8, 10)
          [] t = 50  -> FLit(5, 10)
          [] t = 100 -> FLit(2, 10)
          [] t = 200 -> FLit(1, 10)]

\* sorted(d.items()): the keys in ascending order
RECURSIVE SortedKeys(_)
SortedKeys(S) ==
    IF S = {} THEN <<>>
    ELSE LET m == CHOOSE x \in S : \A y \in S : x <= y
         IN  <<m>> \o SortedKeys(S \ {m})

SortedThresholds == SortedKeys(DOMAIN DISTANCE_FACTORS)

RECURSIVE FactorFrom(_, _)
FactorFrom(distance_km, i) ==
    IF i > Len(SortedThresholds) THEN Zero
    ELSE IF distance_km <= SortedThresholds[i]
         THEN DISTANCE_FACTORS[SortedThresholds[i]]
         ELSE FactorFrom(distance_km, i + 1)

\* the comparison written `distance_km < threshold`
RECURSIVE FactorFromStrict(_, _)
FactorFromStrict(distance_km, i) ==
    IF i > Len(SortedThresholds) THEN Zero
    ELSE IF distance_km < SortedThresholds[i]
         THEN DISTANCE_FACTORS[SortedThresholds[i]]
         ELSE FactorFromStrict(distance_km, i + 1)

get_distance_factor_strict(distance_km) == FactorFromStrict(distance_km, 1)

get_distance_factor(distance_km) == FactorFrom(distance_km, 1)

\* the impact written `(1 + severity_factor) * distance_factor`
ImpactOf_plus ==
    [s \in SeverityLevel |->
        [t \in DOMAIN DISTANCE_FACTORS |->
            FMul(FAdd(One, SPEED_FACTORS[s]), DISTANCE_FACTORS[t])]]

\* (1 - severity_factor) * distance_factor, tabulated over the values the two
\* factors take (the engine computes the same product anew for every hazard)
ImpactOf ==
    [s \in SeverityLevel |->
        [t \in DOMAIN DISTANCE_FACTORS |->
            FMul(FSub(One, SPEED_FACTORS[s]), DISTANCE_FACTORS[t])]]

RECURSIVE ThresholdFrom(_, _)
ThresholdFrom(distance_km, i) ==
    IF i > Len(SortedThresholds) THEN 0
    ELSE IF distance_km <= SortedThresholds[i] THEN SortedThresholds[i]
         ELSE ThresholdFrom(distance_km, i + 1)

\* the loop without its test `if distance_factor > 0`, a hazard beyond the
\* last threshold weighing as one at the last threshold
RECURSIVE ImpactLoop_weighing_far(_, _)
ImpactLoop_weighing_far(hs, k) ==
    IF k = 0 THEN Zero
    ELSE LET total_impact == ImpactLoop_weighing_far(hs, k - 1)
             threshold    == ThresholdFrom(hs[k].distance_km, 1)
         IN  FAdd(total_impact,
                  ImpactOf[hs[k].severity_level]
                          [IF threshold = 0 THEN SortedThresholds[Len(SortedThresholds)]
                           ELSE threshold])

\* total_impact after the loop has run over the first k hazards
RECURSIVE ImpactLoop(_, _)
ImpactLoop(hs, k) ==
    IF k = 0 THEN Zero
    ELSE LET total_impact    == ImpactLoop(hs, k - 1)
             distance_factor == get_distance_factor(hs[k].distance_km)
         IN  IF FLess(Zero, distance_factor)
             THEN FAdd(total_impact,
                       ImpactOf[hs[k].severity_level][ThresholdFrom(hs[k].distance_km, 1)])
             ELSE total_impact

MIN_SPEED == 20
\* the cap written 0.9
MAX_IMPACT_high == FLit(9, 10)

MAX_IMPACT == FLit(8, 10)

\* int(n * x) for an integer n and a float x >= 0: the product is rounded
\* symmetrically and int() truncates towards zero
IntOfProduct(n, x) ==
    IF n >= 0 THEN FToInt(FMul(x, FFromInt(n)))
    ELSE -FToInt(FMul(x, FFromInt(-n)))

\* min() written for max()
Min(a, b) == IF a <= b THEN a ELSE b

Max(a, b) == IF a >= b THEN a ELSE b

\* the floor `max(recommended_speed, 20)` left out
calculate_recommended_speed_no_floor(hs, limit) ==
    LET total_impact == FMin(ImpactLoop(hs, Len(hs)), MAX_IMPACT)
    IN  IntOfProduct(limit, FSub(One, total_impact))

\* the product written `base_speed_limit * (1 + total_impact)`
calculate_recommended_speed_plus(hs, limit) ==
    LET total_impact == FMin(ImpactLoop(hs, Len(hs)), MAX_IMPACT)
    IN  Max(IntOfProduct(limit, FAdd(One, total_impact)), MIN_SPEED)

calculate_recommended_speed(hs, limit) ==
    LET total_impact == FMin(ImpactLoop(hs, Len(hs)), MAX_IMPACT)
    IN  Max(IntOfProduct(limit, FSub(One, total_impact)), MIN_SPEED)

(***************************************************************************)
(* The HTTP handlers of speed_routes.py.                                   *)
(*                                                                         *)
(* A request is the JSON body: `waypoints`, each with its optional         *)
(* 'speed_limit' (<<>> when the key is absent) and, standing for the       *)
(* database, what Hazard.query...all() gives for it: either a failure or   *)
(* the rows found, each with the distance calculate_distance returns for   *)
(* it from the waypoint.  A handler's return value is [tuple, status,      *)
(* json]: `tuple` tells `return jsonify(..), code` from `return            *)
(* jsonify(..)`, which returns the Response object itself.                 *)
(***************************************************************************)
DEFAULT_SPEED_LIMIT == 50

JsonError(msg, code) == [tuple |-> TRUE, status |-> code, json |-> [error |-> msg]]

JsonOk(body) == [tuple |-> FALSE, status |-> 200, json |-> body]

IsError(result) == "error" \in DOMAIN result.json

\* waypoint.get('speed_limit', 50)
SpeedLimitOf(waypoint) ==
    IF waypoint.speed_limit = <<>> THEN DEFAULT_SPEED_LIMIT ELSE waypoint.speed_limit[1]

\* the test `if distance <= search_radius_km` left out
RECURSIVE HazardDetails_unfiltered(_, _, _)
HazardDetails_unfiltered(rows, search_radius_km, k) ==
    IF k = 0 THEN <<>>
    ELSE Append(HazardDetails_unfiltered(rows, search_radius_km, k - 1),
                [id          |-> rows[k].id,
                 type        |-> rows[k].hazard_type,
                 severity    |-> rows[k].severity_level,
                 distance_km |-> rows[k].distance_km])

\* the loop `for hazard in hazards: ... if distance <= search_radius_km:
\* hazard_details.append({...})`; round(distance, 2) of a whole number of
\* hundredths is that number
RECURSIVE HazardDetails(_, _, _)
HazardDetails(rows, search_radius_km, k) ==
    IF k = 0 THEN <<>>
    ELSE LET rest == HazardDetails(rows, search_radius_km, k - 1)
         IN  IF rows[k].distance_km <= search_radius_km
             THEN Append(rest, [id          |-> rows[k].id,
                                type        |-> rows[k].hazard_type,
                                severity    |-> rows[k].severity_level,
                                distance_km |-> rows[k].distance_km])
             ELSE rest

\* one pass of the waypoint loop: the recommendation appended for waypoint i
\* (waypoint_index is i - 1, enumerate() counting from 0)
Recommendation(waypoint, i, search_radius_km) ==
    LET speed_limit == SpeedLimitOf(waypoint)
        rows        == waypoint.query.rows
    IN  The({[waypoint_index    |-> i - 1,
              speed_limit       |-> speed_limit,
              recommended_speed |-> recommended,
              speed_reduction   |-> speed_limit - recommended,
              hazards_count     |-> Len(hazard_details),
              hazards           |-> hazard_details] :
                recommended    \in {calculate_recommended_speed(rows, speed_limit)},
                hazard_details \in {HazardDetails(rows, search_radius_km, Len(rows))}})

QUERY_ERROR == "database error"

\* what the caller would get were the handler without its `except Exception`
Raised(e) == [tuple |-> FALSE, status |-> 0, json |-> <<>>, raised |-> e]

\* the handler without `except Exception`: the failure of the query leaves it
get_speed_recommendations_uncaught(data) ==
    IF data.waypoints = <<>> THEN JsonError("No waypoints provided", 400)
    ELSE IF \E i \in 1..Len(data.waypoints) : data.waypoints[i].query.failed
    THEN Raised(QUERY_ERROR)
    ELSE JsonOk([recommendations  |->
                     [i \in 1..Len(data.waypoints) |->
                         Recommendation(data.waypoints[i], i, data.search_radius_km)],
                 search_radius_km |-> data.search_radius_km,
                 total_waypoints  |-> Len(data.waypoints)])

\* lines 94-159: everything runs inside `try`, and `except Exception` answers
\* the exception of a failed query with its text and status 500
get_speed_recommendations(data) ==
    IF data.waypoints = <<>> THEN JsonError("No waypoints provided", 400)
    ELSE IF \E i \in 1..Len(data.waypoints) : data.waypoints[i].query.failed
    THEN JsonError(QUERY_ERROR, 500)
    ELSE JsonOk([recommendations  |->
                     [i \in 1..Len(data.waypoints) |->
                         Recommendation(data.waypoints[i], i, data.search_radius_km)],
                 search_radius_km |-> data.search_radius_km,
                 total_waypoints  |-> Len(data.waypoints)])

RECURSIVE SumOf(_, _, _)
SumOf(recs, field, k) ==
    IF k = 0 THEN 0 ELSE SumOf(recs, field, k - 1) + recs[k][field]

\* max(recommendations, key=lambda x: x['speed_reduction']): the first of the
\* items with the largest key
MaxBySpeedReduction(recs) ==
    LET i == CHOOSE j \in 1..Len(recs) :
                 /\ \A l \in 1..Len(recs) : recs[l].speed_reduction <= recs[j].speed_reduction
                 /\ \A l \in 1..(j - 1) : recs[l].speed_reduction < recs[j].speed_reduction
    IN  recs[i]

\* round(total / n, 1) in tenths, ties to even; total / n has no tie at the
\* tenths that a float would misplace while n < 20
RoundTenths(total, n) ==
    LET q == (10 * total) \div n
        r == (10 * total) % n
    IN  IF 2 * r > n \/ (2 * r = n /\ q % 2 = 1) THEN q + 1 ELSE q

\* the number of hazards of all recommendations whose field `key` is `value`
CountHazards(recs, key, value) ==
    SumOf([i \in 1..Len(recs) |->
              [n |-> Cardinality({k \in 1..Len(recs[i].hazards) :
                                     recs[i].hazards[k][key] = value})]],
          "n", Len(recs))

\* lines 237-276 of analyze_route_safety: the report made of the recommendations
RouteAnalysis(data, recs) ==
    LET total_hazards         == SumOf(recs, "hazards_count", Len(recs))
        total_speed_reduction == SumOf(recs, "speed_reduction", Len(recs))
        n                     == Len(recs)
        \* avg_speed_reduction <= 10 and <= 20, on total / n
        safety_level ==
            IF total_hazards = 0 THEN "safe"
            ELSE IF n = 0 \/ total_speed_reduction <= 10 * n THEN "low_risk"
            ELSE IF total_speed_reduction <= 20 * n THEN "moderate_risk"
            ELSE "high_risk"
        types == UNION {{recs[i].hazards[k].type : k \in 1..Len(recs[i].hazards)} :
                           i \in 1..Len(recs)}
    IN  JsonOk([route_analysis |->
                    [total_waypoints         |-> Len(data.waypoints),
                     total_hazards           |-> total_hazards,
                     average_speed_reduction |->
                         IF n = 0 THEN 0 ELSE RoundTenths(total_speed_reduction, n),
                     safety_level            |-> safety_level,
                     hazard_distribution     |->
                         [t \in types |-> CountHazards(recs, "type", t)],
                     severity_distribution   |->
                         [v \in SeverityLevel |-> CountHazards(recs, "severity", v)],
                     most_dangerous_segment  |->
                         IF n = 0 THEN <<>> ELSE <<MaxBySpeedReduction(recs)>>,
                     estimated_extra_time_minutes |-> total_speed_reduction],
                detailed_recommendations |-> recs])

NOT_SUBSCRIPTABLE == "'Response' object is not subscriptable"

\* the check `if not waypoints` left out
analyze_route_safety_unchecked(data) ==
    LET recommendations_response == get_speed_recommendations(data)
    IN  IF ~recommendations_response.tuple
        THEN JsonError(NOT_SUBSCRIPTABLE, 500)
        ELSE LET recommendations_data == recommendations_response.json
             IN  IF "recommendations" \notin DOMAIN recommendations_data
                 THEN JsonError("Failed to get recommendations", 500)
                 ELSE RouteAnalysis(data, recommendations_data.recommendations)

analyze_route_safety(data) ==
    IF data.waypoints = <<>> THEN JsonError("No waypoints provided", 400)
    ELSE LET recommendations_response == get_speed_recommendations(data)
         IN  \* recommendations_response[0]: only a tuple can be indexed; indexing
             \* the Response object raises TypeError, which the handler's
             \* `except Exception` turns into a 500
             IF ~recommendations_response.tuple
             THEN JsonError(NOT_SUBSCRIPTABLE, 500)
             ELSE LET recommendations_data == recommendations_response.json
                  IN  IF "recommendations" \notin DOMAIN recommendations_data
                      THEN JsonError("Failed to get recommendations", 500)
                      ELSE RouteAnalysis(data, recommendations_data.recommendations)

(***************************************************************************)
(* The simulators of gps_simulator.py.                                     *)
(*                                                                         *)
(* A coordinate is a whole number of nano-degrees (1e-9 degree) from a     *)
(* reference point, standing for the nearest float; headings are whole     *)
(* degrees, multiples of 30; speeds whole km/h; accuracies whole metres.   *)
(* The values random.uniform and random.random draw are parameters of the  *)
(* operators: a perturbation is <<>> when random.random() was above the    *)
(* chance of 10% or 5%, and <<delta>> when it was below.                   *)
(***************************************************************************)
\* 1 / 111320 of a degree (one metre of the flat-Earth conversion)
NDEG_PER_METRE == 8983

MIN_SIM_SPEED == 20
MAX_SIM_SPEED == 80

\* 1000 * cos(radians(heading)), for the multiples of 30 degrees
Cos1000(heading) ==
    CASE heading \in {0}        -> 1000
      [] heading \in {30, 330}  -> 866
      [] heading \in {60, 300}  -> 500
      [] heading \in {90, 270}  -> 0
      [] heading \in {120, 240} -> -500
      [] heading \in {150, 210} -> -866
      [] heading \in {180}      -> -1000

\* sin(x) = cos(x - 90)
Sin1000(heading) == Cos1000((heading + 270) % 360)

\* GPSSimulator.__init__, `heading` and `accuracy` being the values drawn
GPSSimulator(start_lat, start_lng, speed_kmh, heading, accuracy) ==
    [constructed |-> TRUE,
     current_lat |-> start_lat,
     current_lng |-> start_lng,
     speed_kmh   |-> speed_kmh,
     heading     |-> heading,
     accuracy    |-> accuracy]

\* speed_ms * time_delta_seconds in millimetres, then / 111320 in
\* nano-degrees, then along the heading
calculate_new_position(self, time_delta_seconds) ==
    LET distance_mm  == (self.speed_kmh * time_delta_seconds * 1000000) \div 3600
        distance_deg == (distance_mm * NDEG_PER_METRE) \div 1000
        lat_change   == (distance_deg * Cos1000(self.heading)) \div 1000
        lng_change   == (distance_deg * Sin1000(self.heading)) \div 1000
    IN  <<self.current_lat + lat_change, self.current_lng + lng_change>>

\* the ends of the range +-accuracy / 111320 that the noise is drawn from
NoiseSamples(accuracy) == {-(accuracy * NDEG_PER_METRE), accuracy * NDEG_PER_METRE}

add_noise(lat, lng, lat_noise, lng_noise) == <<lat + lat_noise, lng + lng_noise>>

update_heading(self, heading_change) ==
    IF heading_change = <<>> THEN self
    ELSE [self EXCEPT !.heading = (self.heading + heading_change[1]) % 360]

\* max(20, min(80, self.speed_kmh + speed_change))
update_speed(self, speed_change) ==
    IF speed_change = <<>> THEN self
    ELSE LET changed == self.speed_kmh + speed_change[1]
             capped  == IF changed > MAX_SIM_SPEED THEN MAX_SIM_SPEED ELSE changed
         IN  [self EXCEPT !.speed_kmh =
                 IF capped < MIN_SIM_SPEED THEN MIN_SIM_SPEED ELSE capped]

\* round(x, 6): to the nearest micro-degree (1000 nano-degrees), ties to even
RoundMicro(x) ==
    LET q == x \div 1000
        r == x % 1000
    IN  1000 * (IF r > 500 \/ (r = 500 /\ q % 2 = 1) THEN q + 1 ELSE q)

\* GPSSimulator.get_current_position: the stored position with fresh noise
\* (timestamp, altitude and road_name are not kept)
GPSSimulator_get_current_position(self, lat_noise, lng_noise) ==
    LET noisy == add_noise(self.current_lat, self.current_lng, lat_noise, lng_noise)
    IN  [returned  |-> TRUE,
         latitude  |-> RoundMicro(noisy[1]),
         longitude |-> RoundMicro(noisy[2]),
         speed     |-> self.speed_kmh,
         heading   |-> self.heading,
         accuracy  |-> self.accuracy]

\* GPSSimulator.move: the position first, then heading, speed and accuracy
GPSSimulator_move(self, time_delta_seconds, heading_change, speed_change, accuracy) ==
    LET new   == calculate_new_position(self, time_delta_seconds)
        moved == [self EXCEPT !.current_lat = new[1], !.current_lng = new[2]]
    IN  [update_speed(update_heading(moved, heading_change), speed_change)
            EXCEPT !.accuracy = accuracy]

\* one metre of the haversine arc (R = 6371 km), in nano-degrees
NDEG_PER_ARC_METRE == 8993

\* RouteSimulator.calculate_distance for two points of one meridian, where
\* the haversine formula gives R * |lat2 - lat1|; in metres, which is the
\* `total_distance * 1000` of move
calculate_distance(lat1, lng1, lat2, lng2) ==
    (IF lat2 >= lat1 THEN lat2 - lat1 ELSE lat1 - lat2) \div NDEG_PER_ARC_METRE

\* RouteSimulator.__init__ (the embedded GPSSimulator is gps_simulator)
RouteSimulator(waypoints, speed_kmh) ==
    [constructed            |-> TRUE,
     waypoints              |-> waypoints,
     current_waypoint_index |-> 0,
     speed_kmh              |-> speed_kmh,
     progress               |-> Zero]

\* self.current_waypoint_index >= len(self.waypoints) - 1
EndOfRoute(self) == self.current_waypoint_index >= Len(self.waypoints) - 1

\* waypoints[i] of Python, indices counting from 0
WaypointAt(self, i) == self.waypoints[i + 1]

\* total_distance * 1000 of the segment the simulator is on
SegmentMetres(self) ==
    LET current == WaypointAt(self, self.current_waypoint_index)
        next_wp == WaypointAt(self, self.current_waypoint_index + 1)
    IN  calculate_distance(current.lat, current.lng, next_wp.lat, next_wp.lng)

\* speed_ms * time_delta_seconds, for the speeds that are whole metres per
\* second
DistanceMetres(self, time_delta_seconds) ==
    ((self.speed_kmh * 1000) \div 3600) * time_delta_seconds

\* `distance_m / (total_distance * 1000)` raises ZeroDivisionError when the
\* two waypoints of the segment coincide
MoveRaises(self) == ~EndOfRoute(self) /\ SegmentMetres(self) = 0

\* the reset `self.progress = 0.0` left out
RouteSimulator_move_no_reset(self, time_delta_seconds) ==
    IF EndOfRoute(self) THEN self
    ELSE The({IF ~FLess(progress, One)
              THEN [self EXCEPT !.current_waypoint_index = @ + 1, !.progress = progress]
              ELSE [self EXCEPT !.progress = progress] :
                progress \in {FAdd(self.progress,
                                   FLit(DistanceMetres(self, time_delta_seconds),
                                        SegmentMetres(self)))}})

\* the reset written `self.progress -= 1.0`, which keeps the overshoot
RouteSimulator_move_keeping_overshoot(self, time_delta_seconds) ==
    IF EndOfRoute(self) THEN self
    ELSE The({IF ~FLess(progress, One)
              THEN [self EXCEPT !.current_waypoint_index = @ + 1,
                                !.progress = FSub(progress, One)]
              ELSE [self EXCEPT !.progress = progress] :
                progress \in {FAdd(self.progress,
                                   FLit(DistanceMetres(self, time_delta_seconds),
                                        SegmentMetres(self)))}})

\* the end of the route written as a restart of the route
RouteSimulator_move_restarting(self, time_delta_seconds) ==
    IF EndOfRoute(self) THEN [self EXCEPT !.current_waypoint_index = 0]
    ELSE The({IF ~FLess(progress, One)
              THEN [self EXCEPT !.current_waypoint_index = @ + 1, !.progress = Zero]
              ELSE [self EXCEPT !.progress = progress] :
                progress \in {FAdd(self.progress,
                                   FLit(DistanceMetres(self, time_delta_seconds),
                                        SegmentMetres(self)))}})

\* the advance `self.current_waypoint_index += 1` left out
RouteSimulator_move_stalling(self, time_delta_seconds) ==
    IF EndOfRoute(self) THEN self
    ELSE The({IF ~FLess(progress, One)
              THEN [self EXCEPT !.progress = Zero]
              ELSE [self EXCEPT !.progress = progress] :
                progress \in {FAdd(self.progress,
                                   FLit(DistanceMetres(self, time_delta_seconds),
                                        SegmentMetres(self)))}})

\* RouteSimulator.move when it raises nothing; the quotient of two whole
\* floats is the correctly rounded quotient
RouteSimulator_move(self, time_delta_seconds) ==
    IF EndOfRoute(self) THEN self
    ELSE The({IF ~FLess(progress, One)
              THEN [self EXCEPT !.current_waypoint_index = @ + 1, !.progress = Zero]
              ELSE [self EXCEPT !.progress = progress] :
                progress \in {FAdd(self.progress,
                                   FLit(DistanceMetres(self, time_delta_seconds),
                                        SegmentMetres(self)))}})

\* current + (next - current) * progress, to the nano-degree
Interpolate(current, next_wp, progress) ==
    current + IntOfProduct(next_wp - current, progress)

\* RouteSimulator.get_current_position up to its return statements: the
\* embedded simulator, placed on the segment unless the route has ended
PlaceOnRoute(self, gps) ==
    IF EndOfRoute(self) THEN gps
    ELSE LET current == WaypointAt(self, self.current_waypoint_index)
             next_wp == WaypointAt(self, self.current_waypoint_index + 1)
         IN  The({[gps EXCEPT !.current_lat = lat, !.current_lng = lng] :
                     lat \in {Interpolate(current.lat, next_wp.lat, self.progress)},
                     lng \in {Interpolate(current.lng, next_wp.lng, self.progress)}})

\* how a simulator call ended
Ended(call, time_delta_seconds, raised) ==
    [call |-> call, time_delta_seconds |-> time_delta_seconds, raised |-> raised]

(***************************************************************************)
(* State machines.                                                         *)
(***************************************************************************)
engine_vars == <<base_speed_limit, hazards, recommended_speed, pc>>
factor_vars == <<arg_km, factor, called, impact>>
http_vars == <<request, response>>
sim_vars == <<gps_simulator, route_simulator, reported, moves, outcome>>
vars == <<engine_vars, factor_vars, http_vars, sim_vars>>

EngineIdle ==
    /\ base_speed_limit = 0
    /\ hazards = <<>>
    /\ recommended_speed = 0
    /\ pc = "idle"

FactorIdle ==
    /\ arg_km = 0
    /\ factor = Zero
    /\ called = FALSE
    /\ impact = Zero

NoResponse == [handler |-> "none"]

HttpIdle ==
    /\ request = [waypoints |-> <<>>, search_radius_km |-> 0]
    /\ response = NoResponse

\* no simulator has been constructed
NoSimulator == [constructed |-> FALSE]

NoPosition == [returned |-> FALSE]

SimIdle ==
    /\ gps_simulator = NoSimulator
    /\ route_simulator = NoSimulator
    /\ reported = NoPosition
    /\ moves = 0
    /\ outcome = Ended("", 0, "")

(***************************************************************************)
(* Spec: calculate_recommended_speed applied to any speed limit of         *)
(* SpeedLimits and any sequence of at most MaxHazards hazards.             *)
(***************************************************************************)
MaxHazards == 2

\* below, at and just above the 20 km/h floor; the limits of the roads of
\* dummy_data_generator.py (30 .. 80); limits above 100, where 20% of the
\* limit exceeds the floor
SpeedLimits == {-10, 0, 10, 19, 20, 21, 30, 40, 50, 60, 70, 80, 100, 101, 105, 120}

\* 0.05 km, every threshold of DISTANCE_FACTORS, and beyond the last one
Distances == {5, 250} \cup DOMAIN DISTANCE_FACTORS

Hazards == [severity_level : SeverityLevel, distance_km : Distances]

Init ==
    /\ base_speed_limit \in SpeedLimits
    /\ hazards = <<>>
    /\ recommended_speed = 0
    /\ pc = "input"
    /\ FactorIdle
    /\ HttpIdle
    /\ SimIdle

NearbyHazard ==
    /\ pc = "input"
    /\ Len(hazards) < MaxHazards
    /\ \E h \in Hazards : hazards' = Append(hazards, h)
    /\ UNCHANGED <<base_speed_limit, recommended_speed, pc, factor_vars, http_vars, sim_vars>>

CalculateRecommendedSpeed ==
    /\ pc = "input"
    /\ recommended_speed' = calculate_recommended_speed(hazards, base_speed_limit)
    /\ pc' = "done"
    /\ UNCHANGED <<base_speed_limit, hazards, factor_vars, http_vars, sim_vars>>

Next == NearbyHazard \/ CalculateRecommendedSpeed

Spec == Init /\ [][Next]_vars

(***************************************************************************)
(* SpecDistance: get_distance_factor called on any distance up to          *)
(* MaxDistance hundredths of a km, any number of times.                    *)
(***************************************************************************)
MaxDistance == 220

InitDistance == EngineIdle /\ FactorIdle /\ HttpIdle /\ SimIdle

GetDistanceFactor ==
    /\ \E d \in 0..MaxDistance :
          /\ arg_km' = d
          /\ factor' = get_distance_factor(d)
    /\ called' = TRUE
    /\ UNCHANGED <<engine_vars, impact, http_vars, sim_vars>>

NextDistance == GetDistanceFactor

SpecDistance == InitDistance /\ [][NextDistance]_vars

(***************************************************************************)
(* SpecImpact: the loop of calculate_recommended_speed run over one hazard *)
(* of any severity, at any distance up to MaxDistance hundredths of a km.  *)
(***************************************************************************)
InitImpact == EngineIdle /\ FactorIdle /\ HttpIdle /\ SimIdle

SingleHazardImpact ==
    /\ ~called
    /\ \E s \in SeverityLevel, d \in 0..MaxDistance :
          /\ hazards' = <<[severity_level |-> s, distance_km |-> d]>>
          /\ arg_km' = d
          /\ factor' = get_distance_factor(d)
          /\ impact' = ImpactLoop(hazards', 1)
    /\ called' = TRUE
    /\ UNCHANGED <<base_speed_limit, recommended_speed, pc, http_vars, sim_vars>>

NextImpact == SingleHazardImpact

SpecImpact == InitImpact /\ [][NextImpact]_vars

(***************************************************************************)
(* SpecRoute: a request of at most MaxWaypoints waypoints is posted to     *)
(* /speed-recommendations or to /speed-recommendations/route-analysis.     *)
(***************************************************************************)
MaxWaypoints == 2

\* the rows of the hazards table
HazardRows ==
    <<[id |-> 1, hazard_type |-> "pothole", severity_level |-> "high"],
      [id |-> 2, hazard_type |-> "debris",  severity_level |-> "low"]>>

\* search_radius_km: the default 1.0, 2.0 and 3.0
SearchRadii == {100, 200, 300}

\* The query keeps the rows of a box of +-radius/111 degrees around the
\* waypoint, whose corners lie up to 1.42 radii away.
BOX_REACH_PERCENT == 142

RowDistances(radius) == {d \in {5, 120, 250} : 100 * d <= BOX_REACH_PERCENT * radius}

At(row, d) == [id |-> row.id, hazard_type |-> row.hazard_type,
               severity_level |-> row.severity_level, distance_km |-> d]

\* what the query can return: any of the rows, in the order of their ids
QueryResults(radius) ==
    {<<>>}
    \cup {<<At(HazardRows[i], d)>> : i \in 1..Len(HazardRows), d \in RowDistances(radius)}
    \cup {<<At(HazardRows[1], d1), At(HazardRows[2], d2)>> :
             d1 \in RowDistances(radius), d2 \in RowDistances(radius)}

Queries(radius) ==
    {[failed |-> TRUE, rows |-> <<>>]}
    \cup {[failed |-> FALSE, rows |-> rows] : rows \in QueryResults(radius)}

Waypoints(radius) == [speed_limit : {<<>>, <<100>>}, query : Queries(radius)]

InitRoute ==
    /\ EngineIdle
    /\ FactorIdle
    /\ SimIdle
    /\ \E radius \in SearchRadii : request = [waypoints |-> <<>>, search_radius_km |-> radius]
    /\ response = NoResponse

AddWaypoint ==
    /\ response = NoResponse
    /\ Len(request.waypoints) < MaxWaypoints
    /\ \E w \in Waypoints(request.search_radius_km) :
          request' = [request EXCEPT !.waypoints = Append(@, w)]
    /\ UNCHANGED <<response, engine_vars, factor_vars, sim_vars>>

PostSpeedRecommendations ==
    /\ response = NoResponse
    /\ response' = [handler |-> "speed-recommendations",
                    result  |-> get_speed_recommendations(request)]
    /\ UNCHANGED <<request, engine_vars, factor_vars, sim_vars>>

PostRouteAnalysis ==
    /\ response = NoResponse
    /\ response' = [handler |-> "route-analysis",
                    result  |-> analyze_route_safety(request)]
    /\ UNCHANGED <<request, engine_vars, factor_vars, sim_vars>>

NextRoute == AddWaypoint \/ PostSpeedRecommendations \/ PostRouteAnalysis

SpecRoute == InitRoute /\ [][NextRoute]_vars

(***************************************************************************)
(* SpecGps: a GPSSimulator is constructed with any speed of                *)
(* ConstructorSpeeds, then moved up to MaxMoves times and read.            *)
(***************************************************************************)
MaxMoves == 2

\* below the range of update_speed, inside it (the default 50), near its
\* upper end, and above it
ConstructorSpeeds == {10, 50, 75, 100}

\* random.uniform(0, 360), random.uniform(3, 8), random.uniform(-30, 30) and
\* random.uniform(-10, 10)
HeadingSamples == {0, 90}
AccuracySamples == {3, 8}
HeadingChanges == {<<>>, <<-30>>, <<30>>}
SpeedChanges == {<<>>, <<-10>>, <<10>>}

InitGps ==
    /\ EngineIdle
    /\ FactorIdle
    /\ HttpIdle
    /\ \E speed_kmh \in ConstructorSpeeds, heading \in HeadingSamples,
          accuracy \in AccuracySamples :
          gps_simulator = GPSSimulator(0, 0, speed_kmh, heading, accuracy)
    /\ route_simulator = NoSimulator
    /\ reported = NoPosition
    /\ moves = 0
    /\ outcome = Ended("", 0, "")

\* gps.move(1.0)
GpsMove ==
    /\ moves < MaxMoves
    /\ \E heading_change \in HeadingChanges, speed_change \in SpeedChanges,
          accuracy \in AccuracySamples :
          gps_simulator' =
              GPSSimulator_move(gps_simulator, 1, heading_change, speed_change, accuracy)
    /\ moves' = moves + 1
    /\ outcome' = Ended("move", 1, "")
    /\ UNCHANGED <<route_simulator, reported, engine_vars, factor_vars, http_vars>>

\* gps.get_current_position()
GpsGetCurrentPosition ==
    /\ \E lat_noise \in NoiseSamples(gps_simulator.accuracy),
          lng_noise \in NoiseSamples(gps_simulator.accuracy) :
          reported' = GPSSimulator_get_current_position(gps_simulator, lat_noise, lng_noise)
    /\ outcome' = Ended("get_current_position", 0, "")
    /\ UNCHANGED <<gps_simulator, route_simulator, moves,
                   engine_vars, factor_vars, http_vars>>

NextGps == GpsMove \/ GpsGetCurrentPosition

SpecGps == InitGps /\ [][NextGps]_vars

(***************************************************************************)
(* SpecSim: a RouteSimulator is constructed on any route of at most        *)
(* MaxRouteLength waypoints, then moved and read any number of times.      *)
(***************************************************************************)
MaxRouteLength == 3

\* waypoints of one meridian, 0, 100 and 300 m north of the reference point;
\* a route may visit a point twice in a row
RoutePoints == {[lat |-> k * 100 * NDEG_PER_ARC_METRE, lng |-> 0] : k \in {0, 1, 3}}

Routes == UNION {[1..n -> RoutePoints] : n \in 1..MaxRouteLength}

\* 0, 10 and 20 m/s
RouteSpeeds == {0, 36, 72}

TimeDeltas == {5, 10}

InitSim ==
    /\ EngineIdle
    /\ FactorIdle
    /\ HttpIdle
    /\ \E waypoints \in Routes, speed_kmh \in RouteSpeeds,
          heading \in HeadingSamples, accuracy \in {5} :
          /\ route_simulator = RouteSimulator(waypoints, speed_kmh)
          /\ gps_simulator = GPSSimulator(waypoints[1].lat, waypoints[1].lng,
                                          speed_kmh, heading, accuracy)
    /\ reported = NoPosition
    /\ moves = 0
    /\ outcome = Ended("", 0, "")

\* move written so that the end of the route hands over to
\* self.gps_simulator.move(time_delta_seconds)
RouteMove_delegating ==
    /\ \E time_delta_seconds \in TimeDeltas :
          IF MoveRaises(route_simulator)
          THEN /\ outcome' = Ended("move", time_delta_seconds, "ZeroDivisionError")
               /\ UNCHANGED <<route_simulator, gps_simulator, moves>>
          ELSE /\ outcome' = Ended("move", time_delta_seconds, "")
               /\ route_simulator' = RouteSimulator_move(route_simulator, time_delta_seconds)
               /\ IF EndOfRoute(route_simulator) /\ moves < MaxMoves
                  THEN /\ moves' = moves + 1
                       /\ gps_simulator' =
                              GPSSimulator_move(gps_simulator, time_delta_seconds,
                                                <<>>, <<>>, gps_simulator.accuracy)
                  ELSE UNCHANGED <<gps_simulator, moves>>
    /\ UNCHANGED <<reported, engine_vars, factor_vars, http_vars>>

\* route_sim.move(time_delta_seconds)
RouteMove ==
    /\ \E time_delta_seconds \in TimeDeltas :
          IF MoveRaises(route_simulator)
          THEN /\ outcome' = Ended("move", time_delta_seconds, "ZeroDivisionError")
               /\ UNCHANGED route_simulator
          ELSE /\ outcome' = Ended("move", time_delta_seconds, "")
               /\ route_simulator' = RouteSimulator_move(route_simulator, time_delta_seconds)
    /\ UNCHANGED <<gps_simulator, reported, moves, engine_vars, factor_vars, http_vars>>

\* route_sim.get_current_position()
RouteGetCurrentPosition ==
    /\ gps_simulator' = PlaceOnRoute(route_simulator, gps_simulator)
    /\ \E lat_noise \in NoiseSamples(gps_simulator.accuracy),
          lng_noise \in NoiseSamples(gps_simulator.accuracy) :
          reported' = GPSSimulator_get_current_position(gps_simulator', lat_noise, lng_noise)
    /\ outcome' = Ended("get_current_position", 0, "")
    /\ UNCHANGED <<route_simulator, moves, engine_vars, factor_vars, http_vars>>

NextSim == RouteMove \/ RouteGetCurrentPosition

SpecSim == InitSim /\ [][NextSim]_vars

(***************************************************************************)
(* SpecDrive: the loop of test_route_simulator, which reads the position   *)
(* and moves again and again, on a route whose consecutive waypoints       *)
(* differ and with a speed that is not 0.  The loop keeps calling move, so *)
(* a move that would change the state is eventually made.                  *)
(***************************************************************************)
DrivableRoutes ==
    {waypoints \in Routes :
        \A i \in 1..(Len(waypoints) - 1) : waypoints[i] # waypoints[i + 1]}

InitDrive ==
    /\ EngineIdle
    /\ FactorIdle
    /\ HttpIdle
    /\ \E waypoints \in DrivableRoutes, speed_kmh \in RouteSpeeds \ {0},
          heading \in {0}, accuracy \in {5} :
          /\ route_simulator = RouteSimulator(waypoints, speed_kmh)
          /\ gps_simulator = GPSSimulator(waypoints[1].lat, waypoints[1].lng,
                                          speed_kmh, heading, accuracy)
    /\ reported = NoPosition
    /\ moves = 0
    /\ outcome = Ended("", 0, "")

NextDrive == RouteMove \/ RouteGetCurrentPosition

SpecDrive == InitDrive /\ [][NextDrive]_vars /\ WF_vars(RouteMove)

(***************************************************************************)
(* SpecOrder: calculate_recommended_speed applied to a sequence of at most *)
(* MaxSequence hazards, then applied again to the same hazards in another  *)
(* order, or to the sequence with one more hazard put in at any place.     *)
(***************************************************************************)
MaxSequence == 3

OrderLimits == {100, 105}

\* high and medium hazards at 0.05, 0.2 and 1.0 km
OrderHazards == [severity_level : {"high", "medium"}, distance_km : {5, 20, 100}]

InitOrder ==
    /\ base_speed_limit \in OrderLimits
    /\ hazards = <<>>
    /\ recommended_speed = 0
    /\ pc = "input"
    /\ FactorIdle
    /\ HttpIdle
    /\ SimIdle

OrderedHazard ==
    /\ pc = "input"
    /\ Len(hazards) < MaxSequence
    /\ \E h \in OrderHazards : hazards' = Append(hazards, h)
    /\ UNCHANGED <<base_speed_limit, recommended_speed, pc, factor_vars, http_vars, sim_vars>>

\* the same call with the hazards in another order
CalculateReordered ==
    /\ pc = "done"
    /\ \E order \in Permutations(1..Len(hazards)) :
          hazards' = [k \in 1..Len(hazards) |-> hazards[order[k]]]
    /\ recommended_speed' = calculate_recommended_speed(hazards', base_speed_limit)
    /\ UNCHANGED <<base_speed_limit, pc, factor_vars, http_vars, sim_vars>>

\* the same call with one more hazard, before hazard k or after the last
CalculateWithOneMore ==
    /\ pc = "done"
    /\ Len(hazards) < MaxSequence
    /\ \E h \in OrderHazards, k \in 1..(Len(hazards) + 1) :
          hazards' = SubSeq(hazards, 1, k - 1) \o <<h>> \o SubSeq(hazards, k, Len(hazards))
    /\ recommended_speed' = calculate_recommended_speed(hazards', base_speed_limit)
    /\ UNCHANGED <<base_speed_limit, pc, factor_vars, http_vars, sim_vars>>

NextOrder ==
    \/ OrderedHazard
    \/ CalculateRecommendedSpeed
    \/ CalculateReordered
    \/ CalculateWithOneMore

SpecOrder == InitOrder /\ [][NextOrder]_vars

(***************************************************************************)
(* The specification's formulas, in exact arithmetic: impacts in           *)
(* ten-thousandths, S and D in percent.                                    *)
(***************************************************************************)
StatedS(severity) ==
    CASE severity = "high" -> 50 [] severity = "medium" -> 75 [] severity = "low" -> 90

StatedThresholds == {10, 20, 50, 100, 200}

StatedFactorAt(t) ==
    CASE t = 10 -> 100 [] t = 20 -> 80 [] t = 50 -> 50 [] t = 100 -> 20 [] t = 200 -> 10

\* D(d): the factor of the smallest threshold >= d, 0 beyond the largest
StatedD(d) ==
    LET above == {t \in StatedThresholds : t >= d}
    IN  IF above = {} THEN 0
        ELSE StatedFactorAt(CHOOSE t \in above : \A u \in above : t <= u)

StatedImpact(h) == (100 - StatedS(h.severity_level)) * StatedD(h.distance_km)

RECURSIVE StatedTotal(_)
StatedTotal(hs) ==
    IF hs = <<>> THEN 0 ELSE StatedImpact(hs[1]) + StatedTotal(Tail(hs))

AtLeast(x, floor) == IF x < floor THEN floor ELSE x

AtMost(x, ceiling) == IF x > ceiling THEN ceiling ELSE x

\* max(floor(speedLimit * (1 - min(T, 0.8))), 20)
StatedSpeed(hs, limit) ==
    AtLeast((limit * (10000 - AtMost(StatedTotal(hs), 8000))) \div 10000, 20)

Returned == pc = "done"

(***************************************************************************)
(* C1: for every speed limit >= 20 and every hazard sequence,              *)
(* calculate_recommended_speed returns an integer r with                   *)
(* 20 <= r <= speedLimit.                                                  *)
(***************************************************************************)
C1_InRange ==
    (Returned /\ base_speed_limit >= 20) =>
        /\ recommended_speed \in Int
        /\ 20 <= recommended_speed
        /\ recommended_speed <= base_speed_limit

\* two hazards have lowered a limit above 20 to a speed strictly between
C1_Witness ==
    /\ Returned
    /\ Len(hazards) = 2
    /\ 20 < recommended_speed
    /\ recommended_speed < base_speed_limit

(***************************************************************************)
(* C2: calculate_recommended_speed returns                                 *)
(* max(floor(speedLimit * (1 - min(T, 0.8))), 20), T being the sum of      *)
(* (1 - S(severity)) * D(distanceKm) over the hazards with D non-zero.     *)
(* The floats of the code miss it: with speedLimit 60 and high-severity    *)
(* hazards at 0.05 km and 2.0 km, T = 0.55 and the formula gives 27, but   *)
(* 60 * (1 - 0.55) is 26.999999999999996 as a float and int() makes it 26. *)
(***************************************************************************)
C2_StatedFormula ==
    Returned => recommended_speed = StatedSpeed(hazards, base_speed_limit)

(***************************************************************************)
(* C3: for an empty hazard sequence calculate_recommended_speed returns    *)
(* exactly max(speedLimit, 20), for every speed limit.                     *)
(***************************************************************************)
C3_EmptyHazards ==
    (Returned /\ hazards = <<>>) =>
        recommended_speed = AtLeast(base_speed_limit, 20)

\* the call returned for no hazards and a limit that the floor raises
C3_Witness ==
    /\ Returned
    /\ hazards = <<>>
    /\ base_speed_limit < 20
    /\ recommended_speed = 20

(***************************************************************************)
(* C4: whenever the impacts of the hazards sum to more than 0.8 the total  *)
(* is clamped to 0.8 and the recommended speed is floor(speedLimit * 0.2), *)
(* raised to 20 when that is lower.  The floats of the code miss it: two   *)
(* high-severity hazards within 0.1 km and speedLimit 105 give 20, not 21, *)
(* because 1 - 0.8 is 0.19999999999999996 as a float.                      *)
(***************************************************************************)
C4_ClampedSpeed ==
    (Returned /\ StatedTotal(hazards) > 8000) =>
        recommended_speed = AtLeast((base_speed_limit * 2) \div 10, 20)

(***************************************************************************)
(* C5 as stated: for every speed limit and every hazard set the            *)
(* recommended speed is never below 20% of the speed limit.                *)
(***************************************************************************)
C5_NeverBelowFifth ==
    Returned => 5 * recommended_speed >= base_speed_limit

(***************************************************************************)
(* C5 as amended: the recommended speed is never more than 1 km/h below    *)
(* 20% of the speed limit (the product is truncated to an integer).        *)
(***************************************************************************)
C5_WithinOneOfFifth ==
    Returned => 5 * (recommended_speed + 1) >= base_speed_limit

\* the clamp has acted and the speed returned is below 20% of the limit
C5_Witness ==
    /\ Returned
    /\ StatedTotal(hazards) > 8000
    /\ 5 * recommended_speed < base_speed_limit

(***************************************************************************)
(* C6: get_distance_factor(d) returns the factor of the smallest threshold *)
(* of {0.1->1.0, 0.2->0.8, 0.5->0.5, 1.0->0.2, 2.0->0.1} that is >= d (a   *)
(* distance equal to a threshold takes that threshold's factor), 0 for     *)
(* every d above 2.0, and the result is non-increasing in d.               *)
(***************************************************************************)
C6_DistanceFactor ==
    /\ [](called => factor = FLit(StatedD(arg_km), 100))
    /\ [][(called /\ arg_km' >= arg_km) => ~FLess(factor, factor')]_vars

\* a distance equal to a threshold: 0.2 km gets 0.8, not 0.5
C6_Witness ==
    /\ called
    /\ arg_km = 20
    /\ factor = FLit(8, 10)

(***************************************************************************)
(* C7: for a speed limit below 20 calculate_recommended_speed returns      *)
(* exactly 20 for every hazard set, which is above the speed limit.        *)
(***************************************************************************)
C7_FloorWins ==
    (Returned /\ base_speed_limit < 20) =>
        /\ recommended_speed = 20
        /\ recommended_speed > base_speed_limit

\* a limit below 20, with hazards
C7_Witness ==
    /\ Returned
    /\ base_speed_limit < 20
    /\ hazards # <<>>
    /\ recommended_speed = 20

(***************************************************************************)
(* Route analysis: what the claims say of a report.                        *)
(***************************************************************************)
Analysed == response.handler = "route-analysis"

\* the analysis of a non-empty route whose hazard queries all succeed
AnalysedRoute ==
    /\ Analysed
    /\ request.waypoints # <<>>
    /\ \A i \in 1..Len(request.waypoints) : ~request.waypoints[i].query.failed

IsReport(result) == "route_analysis" \in DOMAIN result.json

RECURSIVE Total(_, _)
Total(recs, field) ==
    IF recs = <<>> THEN 0 ELSE recs[1][field] + Total(Tail(recs), field)

\* the level the specification assigns to a report's recommendations; the
\* average is Total / Len, so `average <= 10` is `Total <= 10 * Len`
StatedLevel(recs) ==
    IF Total(recs, "hazards_count") = 0 THEN "safe"
    ELSE IF Total(recs, "speed_reduction") <= 10 * Len(recs) THEN "low_risk"
    ELSE IF Total(recs, "speed_reduction") <= 20 * Len(recs) THEN "moderate_risk"
    ELSE "high_risk"

(***************************************************************************)
(* C8: route analysis assigns exactly one safetyLevel to every input:      *)
(* 'safe' iff totalHazards = 0, otherwise 'low_risk' iff the average speed *)
(* reduction is <= 10, 'moderate_risk' iff it is in (10, 20], 'high_risk'  *)
(* iff it is above 20.  The code assigns none: see C22, the handler        *)
(* indexes the Response that get_speed_recommendations returns and         *)
(* answers every route with a 500.                                         *)
(***************************************************************************)
C8_SafetyLevel ==
    AnalysedRoute =>
        /\ IsReport(response.result)
        /\ response.result.json.route_analysis.safety_level =
               StatedLevel(response.result.json.detailed_recommendations)

(***************************************************************************)
(* C9: mostDangerousSegment is the per-waypoint recommendation with the    *)
(* largest speedReduction, the one of smallest waypointIndex among equals. *)
(* The code returns no segment: see C22.                                   *)
(***************************************************************************)
C9_MostDangerous ==
    AnalysedRoute =>
        /\ IsReport(response.result)
        /\ LET recs == response.result.json.detailed_recommendations
               seg  == response.result.json.route_analysis.most_dangerous_segment
           IN  /\ Len(seg) = 1
               /\ \E i \in 1..Len(recs) :
                     /\ seg[1] = recs[i]
                     /\ \A j \in 1..Len(recs) :
                           recs[j].speed_reduction <= recs[i].speed_reduction
                     /\ \A j \in 1..(i - 1) :
                           recs[j].speed_reduction < recs[i].speed_reduction

(***************************************************************************)
(* C10 as stated: given an empty waypoint list, route analysis reports no  *)
(* error: it returns a report with totalHazards = 0,                       *)
(* averageSpeedReduction = 0, safetyLevel 'safe' and no                    *)
(* mostDangerousSegment.                                                   *)
(***************************************************************************)
C10_EmptyRouteReport ==
    (Analysed /\ request.waypoints = <<>>) =>
        /\ ~IsError(response.result)
        /\ IsReport(response.result)
        /\ LET report == response.result.json.route_analysis
           IN  /\ report.total_hazards = 0
               /\ report.average_speed_reduction = 0
               /\ report.safety_level = "safe"
               /\ report.most_dangerous_segment = <<>>

(***************************************************************************)
(* C10 as amended: given an empty waypoint list, route analysis divides    *)
(* nothing by zero and returns no report: it answers with the error        *)
(* 'No waypoints provided' and status 400.                                 *)
(***************************************************************************)
C10_EmptyRouteRejected ==
    (Analysed /\ request.waypoints = <<>>) =>
        /\ response.result.status = 400
        /\ response.result.json = [error |-> "No waypoints provided"]

\* route analysis has answered a request without waypoints
C10_Witness ==
    /\ Analysed
    /\ request.waypoints = <<>>
    /\ IsError(response.result)

(***************************************************************************)
(* The per-waypoint recommendations: what the claims say of them.          *)
(***************************************************************************)
Served == response.handler = "speed-recommendations"

\* /speed-recommendations has answered a non-empty route whose hazard
\* queries all succeeded
ServedRoute ==
    /\ Served
    /\ request.waypoints # <<>>
    /\ \A i \in 1..Len(request.waypoints) : ~request.waypoints[i].query.failed

SomeQueryFailed ==
    /\ request.waypoints # <<>>
    /\ \E i \in 1..Len(request.waypoints) : request.waypoints[i].query.failed

\* the lookup candidates of a waypoint that lie within the search radius, in
\* the order in which the lookup returned them
WithinRadius(waypoint) ==
    SelectSeq(waypoint.query.rows, LAMBDA row : row.distance_km <= request.search_radius_km)

StatedDetail(row) ==
    [id |-> row.id, type |-> row.hazard_type,
     severity |-> row.severity_level, distance_km |-> row.distance_km]

Ascending(details) ==
    \A k \in 1..Len(details) : \A l \in (k + 1)..Len(details) :
        details[k].distance_km <= details[l].distance_km

\* the sum of the counts of a histogram over the keys `keys`
RECURSIVE HistogramTotal(_, _)
HistogramTotal(histogram, keys) ==
    IF keys = {} THEN 0
    ELSE LET key == CHOOSE k \in keys : TRUE
         IN  histogram[key] + HistogramTotal(histogram, keys \ {key})

(***************************************************************************)
(* C11: route analysis of a single waypoint for which no hazard is matched *)
(* (hazards_count = 0) yields safetyLevel 'safe' and a                     *)
(* mostDangerousSegment equal to that waypoint's recommendation, whose     *)
(* speedReduction is 0, whatever the lookup returns and whatever the speed *)
(* limit.  The code yields no report at all: see C22, the handler answers  *)
(* every route with a 500.                                                 *)
(***************************************************************************)
C11_SingleUnmatched ==
    (AnalysedRoute /\ Len(request.waypoints) = 1
                   /\ WithinRadius(request.waypoints[1]) = <<>>) =>
        /\ IsReport(response.result)
        /\ LET recs   == response.result.json.detailed_recommendations
               report == response.result.json.route_analysis
           IN  /\ report.safety_level = "safe"
               /\ report.most_dangerous_segment = <<recs[1]>>
               /\ recs[1].speed_reduction = 0

(***************************************************************************)
(* C12 as stated: for every waypoint the reported hazards[] holds exactly  *)
(* the lookup candidates whose distance to the waypoint is <=              *)
(* searchRadiusKm, ordered by ascending distance.                          *)
(***************************************************************************)
C12_SortedByDistance ==
    ServedRoute =>
        \A i \in 1..Len(request.waypoints) :
            LET details == response.result.json.recommendations[i].hazards
                within  == WithinRadius(request.waypoints[i])
            IN  /\ Len(details) = Len(within)
                /\ {details[k] : k \in 1..Len(details)} =
                       {StatedDetail(within[k]) : k \in 1..Len(within)}
                /\ Ascending(details)

(***************************************************************************)
(* C12 as amended: for every waypoint the reported hazards[] holds exactly *)
(* the lookup candidates whose distance to the waypoint is <=              *)
(* searchRadiusKm, in the order in which the lookup returned them (the     *)
(* list is not sorted).                                                    *)
(***************************************************************************)
C12_FilteredInLookupOrder ==
    ServedRoute =>
        \A i \in 1..Len(request.waypoints) :
            LET details == response.result.json.recommendations[i].hazards
                within  == WithinRadius(request.waypoints[i])
            IN  /\ response.result.json.recommendations[i].hazards_count = Len(within)
                /\ details = [k \in 1..Len(within) |-> StatedDetail(within[k])]

\* a waypoint whose lookup returned a candidate beyond the radius, and one
\* whose two matched hazards are reported farthest first
C12_Witness ==
    /\ ServedRoute
    /\ \E i \in 1..Len(request.waypoints) :
          Len(WithinRadius(request.waypoints[i])) < Len(request.waypoints[i].query.rows)
    /\ \E i \in 1..Len(request.waypoints) :
          LET details == response.result.json.recommendations[i].hazards
          IN  Len(details) = 2 /\ details[1].distance_km > details[2].distance_km

(***************************************************************************)
(* C13: totalHazards, the hazard-type histogram and the severity histogram *)
(* each count every reported hazard of every waypoint once per occurrence, *)
(* so both histogram totals equal totalHazards, which is the sum of the    *)
(* per-waypoint hazards_count.  The code returns no totals and no          *)
(* histograms: see C22.                                                    *)
(***************************************************************************)
C13_HistogramTotals ==
    AnalysedRoute =>
        /\ IsReport(response.result)
        /\ LET recs   == response.result.json.detailed_recommendations
               report == response.result.json.route_analysis
               types  == report.hazard_distribution
               levels == report.severity_distribution
               Occurrences(key, value) ==
                   Total([i \in 1..Len(recs) |->
                             [n |-> Cardinality({k \in 1..Len(recs[i].hazards) :
                                                    recs[i].hazards[k][key] = value})]], "n")
           IN  /\ report.total_hazards = Total(recs, "hazards_count")
               /\ report.total_hazards =
                      Total([i \in 1..Len(recs) |-> [n |-> Len(recs[i].hazards)]], "n")
               /\ \A t \in DOMAIN types : types[t] = Occurrences("type", t)
               /\ \A v \in DOMAIN levels : levels[v] = Occurrences("severity", v)
               /\ HistogramTotal(types, DOMAIN types) = report.total_hazards
               /\ HistogramTotal(levels, DOMAIN levels) = report.total_hazards

(***************************************************************************)
(* C19 as stated: a failure raised by the hazard lookup while computing    *)
(* recommendations propagates unchanged to the caller: it is not caught    *)
(* and no other error value is substituted.                                *)
(***************************************************************************)
C19_FailurePropagates ==
    (Served /\ SomeQueryFailed) => "raised" \in DOMAIN response.result

(***************************************************************************)
(* C19 as amended: a failure raised by the hazard lookup while computing   *)
(* recommendations is caught by the handler, which neither retries nor     *)
(* returns any recommendation: it answers with status 500 and the error    *)
(* body {'error': str(e)}, e being the failure.                            *)
(***************************************************************************)
C19_FailureAnswered ==
    (Served /\ SomeQueryFailed) =>
        /\ "raised" \notin DOMAIN response.result
        /\ response.result.status = 500
        /\ response.result.json = [error |-> QUERY_ERROR]

\* the lookup succeeded for the first waypoint and failed for the second
C19_Witness ==
    /\ Served
    /\ Len(request.waypoints) = 2
    /\ ~request.waypoints[1].query.failed
    /\ request.waypoints[2].query.failed
    /\ IsError(response.result)

(***************************************************************************)
(* C20: the impact contribution of a single hazard,                        *)
(* (1 - S(severity)) * D(distanceKm), lies in [0, 0.5] for every severity  *)
(* and every distance >= 0, and is 0 exactly when the distance exceeds     *)
(* 2.0 km.                                                                 *)
(***************************************************************************)
C20_ImpactRange ==
    (called /\ hazards # <<>>) =>
        /\ ~FLess(FLit(5, 10), impact)
        /\ (impact = Zero) <=> (hazards[1].distance_km > 200)

\* a high-severity hazard within 0.1 km: the impact is 0.5, the upper end
C20_Witness ==
    /\ called
    /\ hazards # <<>>
    /\ hazards[1].severity_level = "high"
    /\ hazards[1].distance_km <= 10
    /\ impact = FLit(5, 10)

(***************************************************************************)
(* C14: after any number of GPSSimulator.move calls, from any constructed  *)
(* simulator, the speed (as stored and as reported by                      *)
(* get_current_position) is within [20, 80] km/h.  The code misses it: the *)
(* constructor stores any speed, and only the perturbation of              *)
(* update_speed, which a move makes with a chance of 5%, clamps it.        *)
(***************************************************************************)
C14_SpeedInRange ==
    (gps_simulator.constructed /\ route_simulator = NoSimulator /\ moves >= 1) =>
        /\ 20 <= gps_simulator.speed_kmh
        /\ gps_simulator.speed_kmh <= 80
        /\ reported.returned => (20 <= reported.speed /\ reported.speed <= 80)

(***************************************************************************)
(* The route simulator: what the claims say of a move.                     *)
(***************************************************************************)
MoveEnded == outcome.call = "move"

\* the progress a move of the given time delta accumulates before the test
\* `progress >= 1.0`
Accumulated(self, time_delta_seconds) ==
    FAdd(self.progress,
         FLit(DistanceMetres(self, time_delta_seconds), SegmentMetres(self)))

(***************************************************************************)
(* C15: in every state of a RouteSimulator that move calls can reach,      *)
(* progress stays within [0, 1]: it never exceeds 1.0 while                *)
(* currentWaypointIndex has not advanced.                                  *)
(***************************************************************************)
C15_ProgressInRange ==
    route_simulator.constructed =>
        /\ ~FLess(route_simulator.progress, Zero)
        /\ ~FLess(One, route_simulator.progress)

\* a second segment has been entered and half or more of it travelled
C15_Witness ==
    /\ route_simulator.constructed
    /\ MoveEnded
    /\ route_simulator.current_waypoint_index = 1
    /\ ~FLess(route_simulator.progress, FLit(5, 10))

(***************************************************************************)
(* C16: a RouteSimulator.move resets progress to 0 exactly when it         *)
(* advances currentWaypointIndex: the index increases, by one, in a move   *)
(* iff the accumulated progress reached >= 1.0 in that move, and progress  *)
(* is then 0 (the overshoot is discarded); in every other move the index   *)
(* is unchanged and progress is not reset.                                 *)
(***************************************************************************)
C16_ResetOnAdvance ==
    [][(route_simulator'.constructed /\ outcome'.call = "move") =>
          IF EndOfRoute(route_simulator) \/ outcome'.raised # ""
          THEN /\ route_simulator'.current_waypoint_index =
                      route_simulator.current_waypoint_index
               /\ route_simulator'.progress = route_simulator.progress
          ELSE LET reached == Accumulated(route_simulator, outcome'.time_delta_seconds)
               IN  IF ~FLess(reached, One)
                   THEN /\ route_simulator'.current_waypoint_index =
                               route_simulator.current_waypoint_index + 1
                        /\ route_simulator'.progress = Zero
                   ELSE /\ route_simulator'.current_waypoint_index =
                               route_simulator.current_waypoint_index
                        /\ route_simulator'.progress = reached]_vars

\* a move of 200 m has ended a first segment of 100 m: the index is 1 and
\* nothing of the overshoot is left in progress
C16_Witness ==
    /\ route_simulator.constructed
    /\ MoveEnded
    /\ outcome.raised = ""
    /\ outcome.time_delta_seconds = 10
    /\ route_simulator.speed_kmh = 72
    /\ Len(route_simulator.waypoints) = 3
    /\ calculate_distance(route_simulator.waypoints[1].lat, 0,
                          route_simulator.waypoints[2].lat, 0) = 100
    /\ route_simulator.current_waypoint_index = 1
    /\ route_simulator.progress = Zero

(***************************************************************************)
(* C17: once currentWaypointIndex is the final waypoint                    *)
(* (index >= len(waypoints) - 1), RouteSimulator.move leaves               *)
(* currentWaypointIndex and progress unchanged, for any time delta and any *)
(* number of further calls.                                                *)
(***************************************************************************)
C17_EndOfRouteFrame ==
    [][(route_simulator.constructed /\ EndOfRoute(route_simulator)) =>
          /\ route_simulator'.current_waypoint_index =
                 route_simulator.current_waypoint_index
          /\ route_simulator'.progress = route_simulator.progress
          /\ EndOfRoute(route_simulator')]_vars

\* a route of one waypoint, which is its final one, has been moved
C17_Witness ==
    /\ route_simulator.constructed
    /\ Len(route_simulator.waypoints) = 1
    /\ MoveEnded
    /\ route_simulator.current_waypoint_index = 0
    /\ route_simulator.progress = Zero

(***************************************************************************)
(* C18 as stated: at the final waypoint each RouteSimulator.move performs  *)
(* a GPSSimulator step, so the embedded simulator's position advances by   *)
(* speed * dt along its heading.                                           *)
(***************************************************************************)
C18_DelegatesAtEnd ==
    [][(route_simulator.constructed /\ EndOfRoute(route_simulator)
            /\ outcome'.call = "move") =>
          /\ moves' = moves + 1
          /\ <<gps_simulator'.current_lat, gps_simulator'.current_lng>> =
                 calculate_new_position(gps_simulator, outcome'.time_delta_seconds)]_vars

(***************************************************************************)
(* C18 as amended: at the final waypoint RouteSimulator.move returns at    *)
(* once and performs no GPSSimulator step: the embedded simulator's        *)
(* position, heading and speed stay as they are, and get_current_position  *)
(* there returns that stored position with fresh noise only.               *)
(***************************************************************************)
C18_NoStepAtEnd ==
    [][(route_simulator.constructed /\ EndOfRoute(route_simulator)) =>
          /\ gps_simulator' = gps_simulator
          /\ moves' = moves
          /\ outcome'.call = "move" => reported' = reported
          /\ outcome'.call = "get_current_position" =>
                /\ reported'.latitude \in
                       {RoundMicro(gps_simulator.current_lat + noise) :
                           noise \in NoiseSamples(gps_simulator.accuracy)}
                /\ reported'.longitude \in
                       {RoundMicro(gps_simulator.current_lng + noise) :
                           noise \in NoiseSamples(gps_simulator.accuracy)}]_vars

\* a route of several waypoints has ended and been moved, no GPSSimulator
\* step was made, and the embedded simulator, whose speed is not 0, still
\* stands where it was placed before the last waypoint was reached
C18_Witness ==
    /\ route_simulator.constructed
    /\ Len(route_simulator.waypoints) >= 2
    /\ EndOfRoute(route_simulator)
    /\ MoveEnded
    /\ moves = 0
    /\ gps_simulator.speed_kmh > 0
    /\ reported.returned
    /\ gps_simulator.current_lat #
           route_simulator.waypoints[Len(route_simulator.waypoints)].lat

(***************************************************************************)
(* C21: a hazard returned by the lookup whose distance is greater than     *)
(* 2.0 km but <= searchRadiusKm contributes nothing to the recommended     *)
(* speed (the speed is the one computed without it) yet is still listed in *)
(* hazards[] and counted in hazards_count.                                 *)
(***************************************************************************)
RemoveAt(rows, k) == SubSeq(rows, 1, k - 1) \o SubSeq(rows, k + 1, Len(rows))

\* row k of the waypoint's lookup lies beyond the last threshold of
\* DISTANCE_FACTORS and within the search radius
FarWithinRadius(waypoint, k) ==
    /\ waypoint.query.rows[k].distance_km > SortedThresholds[Len(SortedThresholds)]
    /\ waypoint.query.rows[k].distance_km <= request.search_radius_km

C21_FarHazardListedNotWeighed ==
    ServedRoute =>
        \A i \in 1..Len(request.waypoints) :
            LET waypoint == request.waypoints[i]
                rows     == waypoint.query.rows
                rec      == response.result.json.recommendations[i]
            IN  \A k \in 1..Len(rows) :
                    FarWithinRadius(waypoint, k) =>
                        /\ rec.recommended_speed =
                               calculate_recommended_speed(RemoveAt(rows, k),
                                                           SpeedLimitOf(waypoint))
                        /\ \E l \in 1..Len(rec.hazards) :
                               rec.hazards[l] = StatedDetail(rows[k])
                        /\ rec.hazards_count = Len(WithinRadius(waypoint))
                        /\ rec.hazards_count >= 1

\* with a search radius of 3.0 km, a waypoint has a pothole at 0.05 km and
\* debris at 2.5 km: both are listed, and the speed is the one the pothole
\* alone gives
C21_Witness ==
    /\ ServedRoute
    /\ request.search_radius_km = 300
    /\ LET waypoint == request.waypoints[1]
           rec      == response.result.json.recommendations[1]
       IN  /\ Len(waypoint.query.rows) = 2
           /\ waypoint.query.rows[1].distance_km = 5
           /\ FarWithinRadius(waypoint, 2)
           /\ rec.hazards_count = 2
           /\ rec.recommended_speed < rec.speed_limit

(***************************************************************************)
(* C22: for every non-empty waypoint list for which the per-waypoint       *)
(* recommendations are computed successfully, route analysis returns a     *)
(* report (total_hazards, average_speed_reduction, safety_level, the two   *)
(* distributions, most_dangerous_segment) and not an error outcome.  The   *)
(* code subscripts the bare Response that get_speed_recommendations        *)
(* returns on success, and answers the TypeError with status 500.          *)
(***************************************************************************)
C22_ReportReturned ==
    AnalysedRoute =>
        /\ ~IsError(response.result)
        /\ response.result.status = 200
        /\ IsReport(response.result)
        /\ {"total_hazards", "average_speed_reduction", "safety_level",
            "severity_distribution", "type_distribution", "most_dangerous_segment"}
               \subseteq DOMAIN response.result.json.route_analysis

(***************************************************************************)
(* C23: RouteSimulator.move completes without raising for every waypoint   *)
(* list of length >= 1 and every reachable state, including routes where   *)
(* two consecutive waypoints are identical (segment length 0); it never    *)
(* divides by zero and always leaves the simulator with a valid index and  *)
(* progress.  The code divides the distance travelled by the length of the *)
(* segment, which is 0.0 between identical waypoints.                      *)
(***************************************************************************)
C23_MoveNeverRaises ==
    (route_simulator.constructed /\ MoveEnded) =>
        /\ outcome.raised = ""
        /\ route_simulator.current_waypoint_index \in
               0..(Len(route_simulator.waypoints) - 1)
        /\ ~FLess(route_simulator.progress, Zero)
        /\ FLess(route_simulator.progress, One)

(***************************************************************************)
(* C24: for a RouteSimulator with speed > 0 on a route whose segments all  *)
(* have positive length, repeatedly calling move with positive time deltas *)
(* (a fixed one in particular) eventually brings currentWaypointIndex to   *)
(* len(waypoints) - 1; the index never decreases, advances by at most one  *)
(* per move, never exceeds len(waypoints) - 1, and stays at the final      *)
(* index forever once reached.                                             *)
(***************************************************************************)
AtFinalWaypoint ==
    route_simulator.current_waypoint_index = Len(route_simulator.waypoints) - 1

C24_ReachesFinalWaypoint ==
    /\ <>AtFinalWaypoint
    /\ [][/\ route_simulator'.current_waypoint_index >=
                 route_simulator.current_waypoint_index
          /\ route_simulator'.current_waypoint_index <=
                 route_simulator.current_waypoint_index + 1]_vars
    /\ [](route_simulator.current_waypoint_index <= Len(route_simulator.waypoints) - 1)
    /\ [](AtFinalWaypoint => []AtFinalWaypoint)

\* a route of three waypoints was driven at 10 m/s to its final waypoint,
\* and moved again there
C24_Witness ==
    /\ route_simulator.constructed
    /\ Len(route_simulator.waypoints) = 3
    /\ route_simulator.speed_kmh = 36
    /\ MoveEnded
    /\ outcome.raised = ""
    /\ AtFinalWaypoint
    /\ reported.returned

(***************************************************************************)
(* C25: calculate_recommended_speed is monotone and order-independent in   *)
(* its hazard set: for a fixed point and speed limit, adding any hazard to *)
(* the sequence never increases the recommended speed, and any permutation *)
(* of the hazard sequence yields the same recommended speed.  The code     *)
(* sums the impacts as floats in the order of the sequence, and two orders *)
(* of one set can give sums that differ in the last bit.                   *)
(***************************************************************************)
Occurrences(hs, h) == Cardinality({k \in 1..Len(hs) : hs[k] = h})

IsPermutationOf(hs, gs) ==
    /\ Len(hs) = Len(gs)
    /\ \A k \in 1..Len(hs) : Occurrences(hs, hs[k]) = Occurrences(gs, hs[k])

\* hs is gs with one more hazard
IsOneMoreThan(hs, gs) ==
    /\ Len(hs) = Len(gs) + 1
    /\ \E k \in 1..Len(hs) : RemoveAt(hs, k) = gs

C25_MonotoneAndOrderIndependent ==
    [][(pc = "done" /\ pc' = "done" /\ base_speed_limit' = base_speed_limit) =>
          /\ IsPermutationOf(hazards', hazards) =>
                 recommended_speed' = recommended_speed
          /\ IsOneMoreThan(hazards', hazards) =>
                 recommended_speed' <= recommended_speed]_vars

\* the half of C25 that the code keeps: one more hazard, put in at any place
\* of the sequence, never increases the recommended speed
C25_Monotone ==
    [][(pc = "done" /\ pc' = "done" /\ base_speed_limit' = base_speed_limit
            /\ IsOneMoreThan(hazards', hazards)) =>
          recommended_speed' <= recommended_speed]_vars

====
